---- MODULE Spec2Model ----
(***************************************************************************)
(* A model of the supabase REST client (package supabase, supabase.go):    *)
(* the Client, its data-surface operations (Get, Post, Put, Patch,         *)
(* Delete), the generic-auth operations that go through doRequest, and     *)
(* the token-flow operations (SignIn, RefreshToken) that go through        *)
(* authRequest.  Strings are sequences of one-character strings, so that   *)
(* prefix tests, escaping and concatenation are computed, not assumed.     *)
(***************************************************************************)
EXTENDS Integers, Sequences, FiniteSets, TLC

(***************************************************************************)
(* Characters.  Printable lists the printable ASCII characters in code     *)
(* order, from code 32 (space) to 126, as net/url sees a string's bytes.      *)
(***************************************************************************)
\* code 96, the grave accent, is written "<grave>": the parser has no literal for it
Printable ==
  <<
     " ", "!", "\"", "#", "$", "%", "&", "'", "(", ")", "*", "+", ",", "-", ".", "/",
     "0", "1", "2", "3", "4", "5", "6", "7", "8", "9", ":", ";", "<", "=", ">", "?",
     "@", "A", "B", "C", "D", "E", "F", "G", "H", "I", "J", "K", "L", "M", "N", "O",
     "P", "Q", "R", "S", "T", "U", "V", "W", "X", "Y", "Z", "[", "\\", "]", "^", "_",
     "<grave>", "a", "b", "c", "d", "e", "f", "g", "h", "i", "j", "k", "l", "m", "n", "o",
     "p", "q", "r", "s", "t", "u", "v", "w", "x", "y", "z", "{", "|", "}", "~"
  >>

HexDigits == <<"0", "1", "2", "3", "4", "5", "6", "7", "8", "9", "A", "B", "C", "D", "E", "F">>

LowerHex == <<"a", "b", "c", "d", "e", "f">>

\* a byte that is no printable character (the result of unescaping %00, %FF, ...)
OtherByte == "<byte>"

Range(s) == {s[i] : i \in DOMAIN s}

CodeOf(c) == 31 + (CHOOSE i \in DOMAIN Printable : Printable[i] = c)

Digits == {"0", "1", "2", "3", "4", "5", "6", "7", "8", "9"}

Letters == {Printable[i] : i \in 34..59} \cup {Printable[i] : i \in 66..91}

(***************************************************************************)
(* net/url: QueryEscape and QueryUnescape, as formatQueryParams and        *)
(* url.Values.Encode use them.                                             *)
(***************************************************************************)
\* shouldEscape(c, encodeQueryComponent): everything but the unreserved characters
Unreserved == Letters \cup Digits \cup {"-", "_", ".", "~"}

shouldEscape(c) == c \notin Unreserved

escapeChar(c) ==
  IF c = " " THEN <<"+">>
  ELSE IF shouldEscape(c)
       THEN <<"%", HexDigits[(CodeOf(c) \div 16) + 1], HexDigits[(CodeOf(c) % 16) + 1]>>
       ELSE <<c>>

RECURSIVE QueryEscape(_)
QueryEscape(s) == IF s = <<>> THEN <<>> ELSE escapeChar(Head(s)) \o QueryEscape(Tail(s))

ishex(c) == c \in Range(HexDigits) \cup Range(LowerHex)

unhex(c) ==
  IF c \in Range(LowerHex)
  THEN 9 + (CHOOSE i \in DOMAIN LowerHex : LowerHex[i] = c)
  ELSE (CHOOSE i \in DOMAIN HexDigits : HexDigits[i] = c) - 1

unhexPair(h, l) ==
  LET code == 16 * unhex(h) + unhex(l)
  IN  IF code - 31 \in DOMAIN Printable THEN Printable[code - 31] ELSE OtherByte

\* the first pass of unescape: every % is followed by two hex digits
RECURSIVE validEscapes(_)
validEscapes(s) ==
  IF s = <<>> THEN TRUE
  ELSE IF Head(s) = "%"
       THEN /\ Len(s) >= 3
            /\ ishex(s[2])
            /\ ishex(s[3])
            /\ validEscapes(SubSeq(s, 4, Len(s)))
       ELSE validEscapes(Tail(s))

RECURSIVE unescapeValid(_)
unescapeValid(s) ==
  IF s = <<>> THEN <<>>
  ELSE IF Head(s) = "%" THEN <<unhexPair(s[2], s[3])>> \o unescapeValid(SubSeq(s, 4, Len(s)))
  ELSE IF Head(s) = "+" THEN <<" ">> \o unescapeValid(Tail(s))
  ELSE <<Head(s)>> \o unescapeValid(Tail(s))

\* QueryUnescape returns (string, error): ok is FALSE for an EscapeError
QueryUnescape(s) ==
  IF validEscapes(s) THEN [ok |-> TRUE, val |-> unescapeValid(s)]
  ELSE [ok |-> FALSE, val |-> <<>>]

EqPrefix == <<"e", "q", ".">>

\* a variant that prefixes the value without escaping it
formatQueryParams_NoEscape(params) == [k \in DOMAIN params |-> EqPrefix \o params[k]]

\* formatQueryParams: a new map with the keys of params, each value "eq." + escaped
formatQueryParams(params) == [k \in DOMAIN params |-> EqPrefix \o QueryEscape(params[k])]

HasPrefix(s, p) == Len(s) >= Len(p) /\ SubSeq(s, 1, Len(p)) = p

TrimPrefix(s, p) == IF HasPrefix(s, p) THEN SubSeq(s, Len(p) + 1, Len(s)) ELSE s

Contains(s, p) == \E i \in 0..(Len(s) - Len(p)) : SubSeq(s, i + 1, i + Len(p)) = p

(***************************************************************************)
(* Package-level constants and error values of supabase.go.  A path is a   *)
(* sequence of tokens: "/" and "?" stand for themselves, a name is one     *)
(* token.                                                                  *)
(***************************************************************************)
restApiPath == <<"/", "rest", "/", "v1">>

authApiPath == <<"/", "auth", "/", "v1">>

tokenApiPath == authApiPath \o <<"/", "token">>

signupApiPath == authApiPath \o <<"/", "signup">>

magicLinkApiPath == authApiPath \o <<"/", "magiclink">>

recoverApiPath == authApiPath \o <<"/", "recover">>

verifyApiPath == authApiPath \o <<"/", "verify">>

userApiPath == authApiPath \o <<"/", "user">>

logoutApiPath == authApiPath \o <<"/", "logout">>

inviteApiPath == authApiPath \o <<"/", "invite">>

resetApiPath == authApiPath \o <<"/", "reset">>

BearerPrefix == <<"B", "e", "a", "r", "e", "r", " ">>

(***************************************************************************)
(* Errors.  An error value has a message (a fixed text followed by a       *)
(* detail) and a chain: the identities errors.Is can match, its own when   *)
(* it is one of the package's error variables and those it wraps.  A value *)
(* made by errors.New at the point of return has no identity a caller can  *)
(* name, so its chain is empty.                                            *)
(***************************************************************************)
NoError == [nil |-> TRUE, text |-> "", detail |-> <<>>, chain |-> {}]

ErrInvalidResponse ==
  [nil |-> FALSE, text |-> "invalid response from server", detail |-> <<>>,
   chain |-> {"ErrInvalidResponse"}]

ErrRequestFailed ==
  [nil |-> FALSE, text |-> "request failed", detail |-> <<>>, chain |-> {"ErrRequestFailed"}]

\* errors.New(text): a new value, distinct from every error variable
errorsNew(text) == [nil |-> FALSE, text |-> text, detail |-> <<>>, chain |-> {}]

\* errors.Is(err, target) for a target that is one of the package's error variables
errorsIs(err, target) == ~err.nil /\ (target.chain \cap err.chain) # {}

\* the error net/url returns for a URL it cannot parse, and the one http.Client.Do returns
UrlError == [nil |-> FALSE, text |-> "parse: missing protocol scheme", detail |-> <<>>, chain |-> {}]

\* a variant in which a failed client.Do yields no error
DoError_None == NoError

DoError == [nil |-> FALSE, text |-> "dial: connection refused", detail |-> <<>>, chain |-> {}]

(***************************************************************************)
(* URLs.  url.Parse and http.NewRequest reject a URL that starts with a    *)
(* colon (missing protocol scheme); the part after the first "?" is the    *)
(* raw query.                                                              *)
(***************************************************************************)
QueryStart(u) == IF "?" \in Range(u) THEN CHOOSE i \in DOMAIN u : u[i] = "?" /\ \A j \in 1..(i - 1) : u[j] # "?" ELSE 0

urlParse(u) ==
  [ok |-> ~(u # <<>> /\ Head(u) = ":"),
   path |-> IF QueryStart(u) = 0 THEN u ELSE SubSeq(u, 1, QueryStart(u) - 1),
   rawQuery |-> IF QueryStart(u) = 0 THEN <<>> ELSE SubSeq(u, QueryStart(u) + 1, Len(u))]

RECURSIVE LessStr(_, _)
LessStr(a, b) ==
  IF a = <<>> THEN b # <<>>
  ELSE IF b = <<>> THEN FALSE
  ELSE IF Head(a) = Head(b) THEN LessStr(Tail(a), Tail(b))
  ELSE CodeOf(Head(a)) < CodeOf(Head(b))

RECURSIVE SortedKeys(_)
SortedKeys(S) ==
  IF S = {} THEN <<>>
  ELSE LET m == CHOOSE k \in S : \A j \in S \ {k} : LessStr(k, j)
       IN  <<m>> \o SortedKeys(S \ {m})

RECURSIVE encodeKeys(_, _)
encodeKeys(v, ks) ==
  IF ks = <<>> THEN <<>>
  ELSE QueryEscape(Head(ks)) \o <<"=">> \o QueryEscape(v[Head(ks)])
       \o (IF Len(ks) > 1 THEN <<"&">> ELSE <<>>) \o encodeKeys(v, Tail(ks))

\* url.Values.Encode: key=value pairs sorted by key, keys and values query-escaped
Encode(v) == encodeKeys(v, SortedKeys(DOMAIN v))

\* q := urlObj.Query(); q.Add(key, value) for every formatted parameter.  The
\* endpoints of the data surface carry no query of their own, so q starts empty.
addParams(queryParams) == formatQueryParams(queryParams)

(***************************************************************************)
(* Requests, responses and results.                                        *)
(*   request : what http.NewRequest built and client.Do put on the wire    *)
(*   net     : what the network and the backend do with it: doErr (Do      *)
(*             returns an error), else status and body, and readErr/readN  *)
(*             (reading the body fails after readN bytes), and eofWithData *)
(*             (the end of the body is reported together with its last     *)
(*             bytes, as opposed to by a further read)                     *)
(*   wire    : what the call did on the connection: how many times it      *)
(*             called client.Do, whether the response body was read up to  *)
(*             its end (the end of the data or the read error), whether    *)
(*             it was closed                                               *)
(*   result  : the pair the operation returns; nilBytes and nilAuth say    *)
(*             that the first component is nil                             *)
(***************************************************************************)
ContentTypeJson == <<"application/json">>

NoBody == [has |-> FALSE, bytes |-> <<>>]

\* a variant that re-serializes the data, which drops insignificant space
NewBuffer_Compact(data) == [has |-> TRUE, bytes |-> SelectSeq(data, LAMBDA c : c # " ")]

\* bytes.NewBuffer(data)
NewBuffer(data) == [has |-> TRUE, bytes |-> data]

NoRequest == [method |-> "", url |-> <<>>, headers |-> <<>>, body |-> NoBody]

AuthZero == [AccessToken |-> "", TokenType |-> "", ExpiresIn |-> 0, RefreshToken |-> ""]

\* return b, err from doRequest
BytesResult(b, isNil, err) ==
  [bytes |-> b, nilBytes |-> isNil, auth |-> AuthZero, nilAuth |-> TRUE, err |-> err]

\* return a, err from authRequest
AuthResult(a, isNil, err) ==
  [bytes |-> <<>>, nilBytes |-> TRUE, auth |-> a, nilAuth |-> isNil, err |-> err]

NoResult == BytesResult(<<>>, TRUE, NoError)

Wire(requests, drained, closed) == [requests |-> requests, drained |-> drained, closed |-> closed]

\* the call returned before client.Do
NothingSent == Wire(0, FALSE, FALSE)

\* a variant that calls client.Do again when it has failed
NoResponse_Retry == Wire(2, FALSE, FALSE)

\* client.Do was called once and returned an error: there is no response body
NoResponse == Wire(1, FALSE, FALSE)

Outcome(sent, req, answered, res, wire) ==
  [sent |-> sent, req |-> req, answered |-> answered, res |-> res, wire |-> wire]

Is2xx(status) == ~(status < 200 \/ status >= 300)

\* io.ReadAll(resp.Body) on a body nothing has been read from: the bytes read
\* before the end or before the read error
ReadAll(net) == IF net.readErr THEN SubSeq(net.body, 1, net.readN) ELSE net.body

(***************************************************************************)
(* doRequest (supabase.go 347-402).                                        *)
(***************************************************************************)
\* a variant that prefixes whatever the token is
AuthorizationValue_AlwaysPrefix(token) == BearerPrefix \o token

\* lines 373-379: the Authorization header for a non-empty Token
AuthorizationValue(token) ==
  IF ~HasPrefix(token, BearerPrefix) THEN BearerPrefix \o token ELSE token

\* a variant that sets Authorization to the Token as it is, empty or not
doRequestHeaders_AlwaysAuthorization(c) ==
  [h \in {"apikey", "Content-Type", "Authorization"} |->
     IF h = "apikey" THEN c.ApiKey
     ELSE IF h = "Content-Type" THEN ContentTypeJson
     ELSE c.Token]

\* lines 371-381
doRequestHeaders(c) ==
  [h \in {"apikey", "Content-Type"} \cup (IF c.Token # <<>> THEN {"Authorization"} ELSE {}) |->
     IF h = "apikey" THEN c.ApiKey
     ELSE IF h = "Content-Type" THEN ContentTypeJson
     ELSE AuthorizationValue(c.Token)]

\* a variant that keeps the endpoint's leading slash
doRequestUrlStr_NoTrim(c, endpoint) == c.BaseUrl \o restApiPath \o <<"/">> \o endpoint

\* lines 349-350
doRequestUrlStr(c, endpoint) == c.BaseUrl \o restApiPath \o <<"/">> \o TrimPrefix(endpoint, <<"/">>)

\* lines 357-362: urlObj.RawQuery = q.Encode(); urlStr = urlObj.String()
doRequestQuery(queryParams) == Encode(addParams(queryParams))

\* lines 389-399: defer resp.Body.Close(), and io.ReadAll reads the body up to
\* its end or up to the read error, whatever the status
doRequestBody(net) == Wire(1, TRUE, TRUE)

\* a variant that takes 200 for the only success
doRequestResult_Only200(net) ==
  IF net.status # 200
  THEN BytesResult(<<>>, FALSE, NoError)
  ELSE BytesResult(ReadAll(net), FALSE, NoError)

\* lines 389-401: the response has arrived.  A non-2xx body is read and logged,
\* and the second ReadAll then finds nothing left; a read error is logged.
doRequestResult(net) ==
  IF ~Is2xx(net.status)
  THEN BytesResult(<<>>, FALSE, NoError)
  ELSE BytesResult(ReadAll(net), FALSE, NoError)

doRequest(c, method, endpoint, queryParams, body, net) ==
  LET urlStr == doRequestUrlStr(c, endpoint)
      withParams == DOMAIN queryParams # {}
      finalUrl == IF withParams
                  THEN urlParse(urlStr).path \o <<"?">> \o doRequestQuery(queryParams)
                  ELSE urlStr
      req == [method |-> method, url |-> finalUrl, headers |-> doRequestHeaders(c), body |-> body]
  IN  IF withParams /\ ~urlParse(urlStr).ok
      THEN Outcome(FALSE, NoRequest, FALSE, BytesResult(<<>>, TRUE, NoError), NothingSent)
      ELSE IF ~urlParse(finalUrl).ok
      THEN Outcome(FALSE, NoRequest, FALSE, BytesResult(<<>>, TRUE, UrlError), NothingSent)
      ELSE IF net.doErr
      THEN Outcome(TRUE, req, FALSE, BytesResult(<<>>, TRUE, DoError), NoResponse)
      ELSE Outcome(TRUE, req, TRUE, doRequestResult(net), doRequestBody(net))

(***************************************************************************)
(* encoding/json.  A JSON text is a sequence of symbols: the punctuation   *)
(* { } : , and the quote stand for themselves, a number is one symbol, and *)
(* a string is a quote, the symbols of its content, and a quote.  Values   *)
(* are scalars: the payloads and the token response are flat objects.      *)
(***************************************************************************)
Quote == "\""

JStr(x) == <<Quote>> \o x \o <<Quote>>

JMember(k, v) == JStr(<<k>>) \o <<":">> \o JStr(v)

RECURSIVE joinComma(_)
joinComma(ms) ==
  IF ms = <<>> THEN <<>>
  ELSE Head(ms) \o (IF Len(ms) > 1 THEN <<",">> ELSE <<>>) \o joinComma(Tail(ms))

JObject(ms) == <<"{">> \o joinComma(ms) \o <<"}">>

\* the decimal numbers the model's responses use
NumVal == ("3600" :> 3600) @@ ("0" :> 0) @@ ("60" :> 60)

\* a variant without omitempty: every field is serialized
marshalTokenRequest_NoOmit(p) ==
  JObject(<<JMember("email", p.Email), JMember("password", p.Password),
            JMember("refresh_token", p.RefreshToken), JMember("grant_type", p.GrantType)>>)

\* json.Marshal of a TokenRequestPayload: every field is omitempty
marshalTokenRequest(p) ==
  JObject((IF p.Email # <<>> THEN <<JMember("email", p.Email)>> ELSE <<>>)
          \o (IF p.Password # <<>> THEN <<JMember("password", p.Password)>> ELSE <<>>)
          \o (IF p.RefreshToken # <<>> THEN <<JMember("refresh_token", p.RefreshToken)>> ELSE <<>>)
          \o (IF p.GrantType # <<>> THEN <<JMember("grant_type", p.GrantType)>> ELSE <<>>))

\* json.Marshal of a map[string]string: the members in key order
RECURSIVE marshalKeys(_, _)
marshalKeys(m, ks) ==
  IF ks = <<>> THEN <<>> ELSE <<JStr(Head(ks)) \o <<":">> \o JStr(m[Head(ks)])>> \o marshalKeys(m, Tail(ks))

marshalMap(m) == JObject(marshalKeys(m, SortedKeys(DOMAIN m)))

\* the closing quote of the string that starts at t[1]
ClosingQuote(t) ==
  IF \E j \in 2..Len(t) : t[j] = Quote
  THEN CHOOSE j \in 2..Len(t) : t[j] = Quote /\ \A i \in 2..(j - 1) : t[i] # Quote
  ELSE 0

\* one scalar value at the head of t: its kind, its value and what follows it
scanScalar(t) ==
  IF t = <<>> THEN [ok |-> FALSE, kind |-> "", str |-> <<>>, num |-> 0, rest |-> <<>>]
  ELSE IF Head(t) = Quote
  THEN IF ClosingQuote(t) = 0
       THEN [ok |-> FALSE, kind |-> "", str |-> <<>>, num |-> 0, rest |-> <<>>]
       ELSE [ok |-> TRUE, kind |-> "string", str |-> SubSeq(t, 2, ClosingQuote(t) - 1), num |-> 0,
             rest |-> SubSeq(t, ClosingQuote(t) + 1, Len(t))]
  ELSE IF Head(t) \in DOMAIN NumVal
  THEN [ok |-> TRUE, kind |-> "number", str |-> <<>>, num |-> NumVal[Head(t)], rest |-> Tail(t)]
  ELSE IF Head(t) \in {"true", "false"}
  THEN [ok |-> TRUE, kind |-> "bool", str |-> <<>>, num |-> 0, rest |-> Tail(t)]
  ELSE IF Head(t) = "null"
  THEN [ok |-> TRUE, kind |-> "null", str |-> <<>>, num |-> 0, rest |-> Tail(t)]
  ELSE [ok |-> FALSE, kind |-> "", str |-> <<>>, num |-> 0, rest |-> <<>>]

\* a variant with the tags of the two tokens exchanged
StringFields_Swapped ==
  (<<"access_token">> :> "RefreshToken") @@ (<<"token_type">> :> "TokenType")
  @@ (<<"refresh_token">> :> "AccessToken")

\* the fields of AuthTokenResponse by their json names
StringFields ==
  (<<"access_token">> :> "AccessToken") @@ (<<"token_type">> :> "TokenType")
  @@ (<<"refresh_token">> :> "RefreshToken")

IntFields == (<<"expires_in">> :> "ExpiresIn")

\* store one member into the structure: null leaves the field, a value of the
\* wrong kind is an UnmarshalTypeError, an unknown key is skipped
setField(a, key, v) ==
  IF v.kind = "null" THEN [val |-> a, typeErr |-> FALSE]
  ELSE IF key \in DOMAIN StringFields
  THEN IF v.kind = "string"
       THEN [val |-> [a EXCEPT ![StringFields[key]] = v.str], typeErr |-> FALSE]
       ELSE [val |-> a, typeErr |-> TRUE]
  ELSE IF key \in DOMAIN IntFields
  THEN IF v.kind = "number"
       THEN [val |-> [a EXCEPT ![IntFields[key]] = v.num], typeErr |-> FALSE]
       ELSE [val |-> a, typeErr |-> TRUE]
  ELSE [val |-> a, typeErr |-> FALSE]

\* the members of an object after "{" or ",": key : value, then "," or "}"
RECURSIVE decodeMembers(_, _, _)
decodeMembers(t, a, typeErr) ==
  LET k == scanScalar(t)
      v == scanScalar(Tail(k.rest))
      set == setField(a, k.str, v)
  IN  IF ~(k.ok /\ k.kind = "string" /\ k.rest # <<>> /\ Head(k.rest) = ":") THEN [ok |-> FALSE, val |-> a]
      ELSE IF ~v.ok \/ v.rest = <<>> THEN [ok |-> FALSE, val |-> a]
      ELSE IF Head(v.rest) = "}" THEN [ok |-> ~(typeErr \/ set.typeErr), val |-> set.val]
      ELSE IF Head(v.rest) = "," THEN decodeMembers(Tail(v.rest), set.val, typeErr \/ set.typeErr)
      ELSE [ok |-> FALSE, val |-> a]

\* json.NewDecoder(r).Decode(&authResponse) on the bytes t the reader yields:
\* the first JSON value of the stream is decoded, what follows it is not looked at
Decode(t) ==
  IF t = <<>> THEN [ok |-> FALSE, val |-> AuthZero]
  ELSE IF Head(t) = "{"
  THEN IF Len(t) >= 2 /\ t[2] = "}" THEN [ok |-> TRUE, val |-> AuthZero]
       ELSE decodeMembers(Tail(t), AuthZero, FALSE)
  ELSE IF scanScalar(t).ok THEN [ok |-> scanScalar(t).kind = "null", val |-> AuthZero]
  ELSE [ok |-> FALSE, val |-> AuthZero]

(***************************************************************************)
(* authRequest (supabase.go 306-344).                                      *)
(***************************************************************************)
\* a variant that leaves the API key out
authRequestHeaders_NoApiKey(c) == [h \in {"Content-Type"} |-> ContentTypeJson]

\* lines 320-321
authRequestHeaders(c) ==
  [h \in {"apikey", "Content-Type"} |-> IF h = "apikey" THEN c.ApiKey ELSE ContentTypeJson]

\* lines 331-343: the response has arrived
authRequestResult(net) ==
  IF net.status < 200 \/ net.status >= 300
  THEN AuthResult(AuthZero, TRUE, errorsNew("request failed"))
  ELSE IF ~Decode(ReadAll(net)).ok
  THEN AuthResult(AuthZero, TRUE, errorsNew("failed to decode response"))
  ELSE AuthResult(Decode(ReadAll(net)).val, FALSE, NoError)

\* Decode stops reading once the first JSON value is complete or a symbol is
\* invalid; it reads on, up to the end of the stream, when the data runs out
\* before that: nothing at all, an object that is not closed (the objects of
\* the model have no invalid symbol inside), or a scalar with nothing after it
decodeNeedsMore(t) ==
  \/ t = <<>>
  \/ Head(t) = "{" /\ "}" \notin Range(t)
  \/ Head(t) # "{" /\ scanScalar(t).ok /\ scanScalar(t).rest = <<>>

\* lines 329-343: defer resp.Body.Close().  A non-2xx body is read with
\* io.ReadAll; a 2xx body is read by the decoder, which has seen its end if it
\* needed more than the data or if the end came along with the last bytes
authRequestBody(net) ==
  Wire(1,
       IF net.status < 200 \/ net.status >= 300 THEN TRUE
       ELSE decodeNeedsMore(ReadAll(net)) \/ (~net.readErr /\ net.eofWithData),
       TRUE)

\* a variant that addresses the token endpoint under the tabular-resource path
authRequest_RestPrefix(c, endpoint, payload, net) ==
  LET urlStr == c.BaseUrl \o restApiPath \o endpoint
      req == [method |-> "POST", url |-> urlStr, headers |-> authRequestHeaders(c),
              body |-> NewBuffer(marshalTokenRequest(payload))]
  IN  IF ~urlParse(urlStr).ok
      THEN Outcome(FALSE, NoRequest, FALSE, AuthResult(AuthZero, TRUE, errorsNew("failed to create request")),
                   NothingSent)
      ELSE IF net.doErr
      THEN Outcome(TRUE, req, FALSE, AuthResult(AuthZero, TRUE, errorsNew("failed to perform request")),
                   NoResponse)
      ELSE Outcome(TRUE, req, TRUE, authRequestResult(net), authRequestBody(net))

authRequest(c, endpoint, payload, net) ==
  LET urlStr == c.BaseUrl \o endpoint
      req == [method |-> "POST", url |-> urlStr, headers |-> authRequestHeaders(c),
              body |-> NewBuffer(marshalTokenRequest(payload))]
  IN  IF ~urlParse(urlStr).ok
      THEN Outcome(FALSE, NoRequest, FALSE, AuthResult(AuthZero, TRUE, errorsNew("failed to create request")),
                   NothingSent)
      ELSE IF net.doErr
      THEN Outcome(TRUE, req, FALSE, AuthResult(AuthZero, TRUE, errorsNew("failed to perform request")),
                   NoResponse)
      ELSE Outcome(TRUE, req, TRUE, authRequestResult(net), authRequestBody(net))

(***************************************************************************)
(* The inputs of the model.                                                *)
(***************************************************************************)
\* the longest run of bearer prefixes a caller's token starts with
MaxPrefixes == 2

RECURSIVE Repeat(_, _)
Repeat(p, n) == IF n = 0 THEN <<>> ELSE p \o Repeat(p, n - 1)

\* no token, a raw token, and tokens that already carry the prefix
Tokens == {<<>>} \cup {Repeat(BearerPrefix, n) \o <<"t">> : n \in 0..MaxPrefixes}

\* a well-formed base address, and one url.Parse rejects (missing protocol scheme)
BaseUrls == {<<"http://host">>, <<":", "host">>}

ApiKeys == {<<"k", "e", "y">>}

Endpoints == {<<"Food">>, <<"/", "Food">>}

KeyId == <<"i", "d">>

KeyName == <<"n", "a", "m", "e">>

JohnDoe == <<"J", "o", "h", "n", " ", "D", "o", "e">>

KeyAge == <<"a", "g", "e">>

\* filter values the caller has written as PostgREST operator expressions
Gt25 == <<"g", "t", ".", "2", "5">>

EqJohn == <<"e", "q", ".", "J", "o", "h", "n">>

ParamMaps ==
  {<<>>,
   (KeyId :> <<"1", "0">>),
   (KeyName :> JohnDoe),
   (KeyName :> <<"a", "@", "b">>),
   (KeyId :> <<"1", "0">>) @@ (KeyName :> JohnDoe),
   (KeyAge :> Gt25),
   (KeyName :> EqJohn)}

\* the filter maps Get is called with: none, one, or several
GetArgs == {<<>>} \cup {<<m>> : m \in ParamMaps} \cup {<<(KeyId :> <<"1", "0">>), (KeyName :> JohnDoe)>>}

PrimaryKeys == {<<KeyId, <<"1", "0">>>>, <<KeyName, JohnDoe>>}

\* request bodies: a compact JSON object, and bytes with insignificant space
Datas == {JObject(<<JMember("rating", <<"5">>)>>), <<"{", " ", "}">>}

Emails == {<<"a@b.c">>}

\* SignIn is also called with an empty email
SignInEmails == Emails \cup {<<>>}

Passwords == {<<"pass">>}

\* 101 is the one status below 200 that net/http hands to its caller
Statuses == {101, 200, 201, 299, 300, 400}

Bad == <<"b", "a", "d">>

GoodTokenBody ==
  JObject(<<JMember("access_token", <<"T">>), JMember("token_type", <<"bearer">>),
            JStr(<<"expires_in">>) \o <<":", "3600">>, JMember("refresh_token", <<"R">>)>>)

\* the same four fields in another order and with other values, and a field
\* the structure does not have
OtherTokenBody ==
  JObject(<<JMember("refresh_token", <<"R2">>), JStr(<<"expires_in">>) \o <<":", "60">>,
            JMember("user", <<"u">>), JMember("token_type", <<"bearer">>),
            JMember("access_token", <<"T2">>)>>)

\* bodies the backend answers a doRequest call with
DataBodies == {<<>>, Bad, <<"{", "}">>}

\* bodies the backend answers a token request with
TokenBodies ==
  {<<>>, Bad, <<"{", "}">>, GoodTokenBody, OtherTokenBody, JObject(<<JStr(<<"expires_in">>) \o <<":">> \o JStr(<<"x">>)>>)}

\* where reading a body b may fail: at once, before its last byte, after all of it
ReadCuts(b) == {0, Len(b) - 1, Len(b)} \cap (0..Len(b))

\* the statuses with which a failing read of the body is modelled: one inside
\* [200,300) and one outside
ReadFailStatuses == {200, 400}

NoNet == [doErr |-> TRUE, status |-> 0, body |-> <<>>, readErr |-> FALSE, readN |-> 0, eofWithData |-> TRUE]

Nets(bodies) ==
  {NoNet}
  \cup {[doErr |-> FALSE, status |-> s, body |-> b, readErr |-> FALSE, readN |-> 0, eofWithData |-> TRUE] :
          s \in Statuses, b \in bodies}
  \cup UNION {{[doErr |-> FALSE, status |-> s, body |-> b, readErr |-> TRUE, readN |-> n,
                 eofWithData |-> TRUE] :
                 n \in ReadCuts(b)} : s \in ReadFailStatuses, b \in bodies}

\* what may answer a token request: also with the end of the body reported by
\* a read of its own, which only a reader that stops early can tell apart
TokenNets ==
  Nets(TokenBodies)
  \cup {[n EXCEPT !.eofWithData = FALSE] : n \in {m \in Nets(TokenBodies) : ~m.doErr /\ ~m.readErr}}

(***************************************************************************)
(* The state: one Client and its caller.  The caller is between calls      *)
(* (pc = "idle") or holds what a call has just returned (pc = "returned"); *)
(* last is that call: the operation, the endpoint and filter map it        *)
(* handed to doRequest or authRequest, the response if one arrived, and    *)
(* the outcome.  prevAuth keeps the Authorization header of the request    *)
(* sent before it, as the backend saw it.                                  *)
(***************************************************************************)
VARIABLES client, pc, last, prevAuth, fmt

vars == <<client, pc, last, prevAuth, fmt>>

\* the arguments of a call that the properties look at: the data of Post, Put
\* and Patch, the primary key of Put and Delete, the credentials of SignIn and
\* RefreshToken, the filter maps of Get and Patch
Args(data, pk, creds, filters) == [data |-> data, pk |-> pk, creds |-> creds, filters |-> filters]

NoArgs == Args(<<>>, <<>>, <<>>, <<>>)

NoCall ==
  [op |-> "", args |-> NoArgs, endpoint |-> <<>>, params |-> <<>>, resp |-> NoNet,
   out |-> Outcome(FALSE, NoRequest, FALSE, NoResult, NothingSent)]

NoFmt == [in |-> <<>>, out |-> <<>>, done |-> FALSE]

\* a variant that stores the token as a bearer credential
NewClient_BearerToken(baseUrl, apiKey, token) ==
  [BaseUrl |-> baseUrl, ApiKey |-> apiKey, Token |-> AuthorizationValue(token)]

\* NewClient (supabase.go 90-96)
NewClient(baseUrl, apiKey, token) == [BaseUrl |-> baseUrl, ApiKey |-> apiKey, Token |-> token]

Init ==
  /\ client \in {NewClient(b, k, t) : b \in BaseUrls, k \in ApiKeys, t \in Tokens}
  /\ pc = "idle"
  /\ last = NoCall
  /\ prevAuth = <<>>
  /\ fmt = NoFmt

\* a variant in which a token flow stores the access token it got in the client
Returns_StoresToken(op, args, endpoint, params, net, out) ==
  /\ pc' = "returned"
  /\ last' = [op |-> op, args |-> args, endpoint |-> endpoint, params |-> params,
              resp |-> IF out.answered THEN net ELSE NoNet, out |-> out]
  /\ client' = IF out.res.nilAuth \/ net.body \notin {GoodTokenBody, OtherTokenBody} THEN client
               ELSE [client EXCEPT !.Token = out.res.auth.AccessToken]
  /\ UNCHANGED <<prevAuth, fmt>>

\* the operation op, called with args and having passed endpoint and params
\* down, returns out
Returns(op, args, endpoint, params, net, out) ==
  /\ pc' = "returned"
  /\ last' = [op |-> op, args |-> args, endpoint |-> endpoint, params |-> params,
              resp |-> IF out.answered THEN net ELSE NoNet, out |-> out]
  /\ UNCHANGED <<client, prevAuth, fmt>>

(***************************************************************************)
(* HTTP methods (supabase.go 255-288).                                     *)
(***************************************************************************)
\* a variant that uses the last of the filter maps it is given
Get_LastMap ==
  \E endpoint \in Endpoints, queryParams \in GetArgs, net \in Nets(DataBodies) :
    LET params == IF Len(queryParams) > 0 THEN queryParams[Len(queryParams)] ELSE <<>>
    IN  /\ pc = "idle"
        /\ Returns("Get", Args(<<>>, <<>>, <<>>, queryParams), endpoint, params, net,
                   doRequest(client, "GET", endpoint, params, NoBody, net))

Get ==
  \E endpoint \in Endpoints, queryParams \in GetArgs, net \in Nets(DataBodies) :
    LET params == IF Len(queryParams) > 0 THEN queryParams[1] ELSE <<>>
    IN  /\ pc = "idle"
        /\ Returns("Get", Args(<<>>, <<>>, <<>>, queryParams), endpoint, params, net, doRequest(client, "GET", endpoint, params, NoBody, net))

Post ==
  \E endpoint \in Endpoints, data \in Datas, net \in Nets(DataBodies) :
    /\ pc = "idle"
    /\ Returns("Post", Args(data, <<>>, <<>>, <<>>), endpoint, <<>>, net, doRequest(client, "POST", endpoint, <<>>, NewBuffer(data), net))

Put ==
  \E endpoint \in Endpoints, pk \in PrimaryKeys, data \in Datas, net \in Nets(DataBodies) :
    LET query == (pk[1] :> pk[2])
    IN  /\ pc = "idle"
        /\ Returns("Put", Args(data, pk, <<>>, <<>>), endpoint, query, net,
                   doRequest(client, "PUT", endpoint, query, NewBuffer(data), net))

Patch ==
  \E endpoint \in Endpoints, queryParams \in ParamMaps, data \in Datas, net \in Nets(DataBodies) :
    /\ pc = "idle"
    /\ Returns("Patch", Args(data, <<>>, <<>>, <<queryParams>>), endpoint, queryParams, net,
               doRequest(client, "PATCH", endpoint, queryParams, NewBuffer(data), net))

Delete ==
  \E endpoint \in Endpoints, pk \in PrimaryKeys, net \in Nets(DataBodies) :
    LET query == (pk[1] :> pk[2])
    IN  /\ pc = "idle"
        /\ Returns("Delete", Args(<<>>, pk, <<>>, <<>>), endpoint, query, net,
                   doRequest(client, "DELETE", endpoint, query, NoBody, net))

(***************************************************************************)
(* Auth methods (supabase.go 104-247).                                     *)
(***************************************************************************)
\* a variant that sends the request to BaseUrl followed directly by the path
ViaDoRequest_Direct(op, method, path, body) ==
  \E net \in Nets(DataBodies) :
    LET out == doRequest(client, method, path, <<>>, body, net)
    IN  Returns(op, NoArgs, path, <<>>, net,
                IF out.sent THEN [out EXCEPT !.req.url = client.BaseUrl \o path] ELSE out)

\* an operation that hands path, method and an optional body to doRequest
ViaDoRequest(op, method, path, body) ==
  \E net \in Nets(DataBodies) :
    Returns(op, NoArgs, path, <<>>, net, doRequest(client, method, path, <<>>, body, net))

SignUp ==
  \E email \in Emails, password \in Passwords :
    /\ pc = "idle"
    /\ ViaDoRequest("SignUp", "POST", signupApiPath \o <<"?", "grant_type", "=", "signup">>,
                    NewBuffer(JObject(<<JMember("email", email), JMember("password", password)>>)))

SignIn ==
  \E email \in SignInEmails, password \in Passwords, net \in TokenNets :
    LET payload == [Email |-> email, Password |-> password, RefreshToken |-> <<>>, GrantType |-> <<>>]
        path == tokenApiPath \o <<"?", "grant_type", "=", "password">>
    IN  /\ pc = "idle"
        /\ Returns("SignIn", Args(<<>>, <<>>, <<email, password>>, <<>>), path, <<>>, net, authRequest(client, path, payload, net))

RefreshToken ==
  \E refreshToken \in {<<"R">>}, net \in TokenNets :
    LET payload == [Email |-> <<>>, Password |-> <<>>, RefreshToken |-> refreshToken, GrantType |-> <<>>]
        path == tokenApiPath \o <<"?", "grant_type", "=", "refresh_token">>
    IN  /\ pc = "idle"
        /\ Returns("RefreshToken", Args(<<>>, <<>>, <<refreshToken>>, <<>>), path, <<>>, net, authRequest(client, path, payload, net))

SendMagicLink ==
  \E email \in Emails :
    /\ pc = "idle"
    /\ ViaDoRequest("SendMagicLink", "POST", magicLinkApiPath,
                    NewBuffer(JObject(<<JMember("email", email)>>)))

SendPasswordRecovery ==
  \E email \in Emails :
    /\ pc = "idle"
    /\ ViaDoRequest("SendPasswordRecovery", "POST", recoverApiPath,
                    NewBuffer(JObject(<<JMember("email", email)>>)))

VerifyOTP ==
  \E email \in Emails, token \in {<<"123456">>}, otpType \in {<<"magiclink">>} :
    /\ pc = "idle"
    /\ ViaDoRequest("VerifyOTP", "POST", verifyApiPath,
                    NewBuffer(JObject(<<JMember("email", email), JMember("token", token),
                                        JMember("type", otpType)>>)))

GetUser ==
  /\ pc = "idle"
  /\ ViaDoRequest("GetUser", "GET", userApiPath, NoBody)

UpdateUser ==
  \E payload \in {<<>>, (<<"name">> :> <<"Jane">>)} :
    /\ pc = "idle"
    /\ ViaDoRequest("UpdateUser", "PUT", userApiPath, NewBuffer(marshalMap(payload)))

\* a variant that logs out with a GET
SignOut_Get ==
  /\ pc = "idle"
  /\ ViaDoRequest("SignOut", "GET", logoutApiPath, NoBody)

SignOut ==
  /\ pc = "idle"
  /\ ViaDoRequest("SignOut", "POST", logoutApiPath, NoBody)

InviteUser ==
  \E email \in Emails :
    /\ pc = "idle"
    /\ ViaDoRequest("InviteUser", "POST", inviteApiPath, NewBuffer(JObject(<<JMember("email", email)>>)))

ResetPassword ==
  \E token \in {<<"tok">>}, newPassword \in Passwords :
    /\ pc = "idle"
    /\ ViaDoRequest("ResetPassword", "POST",
                    resetApiPath \o <<"?", "grant_type", "=", "reset_password">>,
                    NewBuffer(JObject(<<JMember("password", newPassword), JMember("token", token)>>)))

(***************************************************************************)
(* The caller.                                                             *)
(***************************************************************************)
\* client.Token = t, between two calls
SetToken ==
  /\ pc = "idle"
  /\ \E t \in Tokens \ {client.Token} : client' = [client EXCEPT !.Token = t]
  /\ UNCHANGED <<pc, last, prevAuth, fmt>>

\* the caller is done with what the call returned and goes on
Proceed ==
  /\ pc = "returned"
  /\ pc' = "idle"
  /\ last' = NoCall
  /\ prevAuth' = IF last.out.sent
                 THEN [h \in DOMAIN last.out.req.headers \cap {"Authorization"} |-> last.out.req.headers[h]]
                 ELSE prevAuth
  /\ UNCHANGED <<client, fmt>>

DataOps == {"Get", "Post", "Put", "Patch", "Delete"}

GenericAuthOps ==
  {"SignUp", "SendMagicLink", "SendPasswordRecovery", "VerifyOTP", "GetUser", "UpdateUser",
   "SignOut", "InviteUser", "ResetPassword"}

TokenOps == {"SignIn", "RefreshToken"}

Next ==
  \/ Get
  \/ Post
  \/ Put
  \/ Patch
  \/ Delete
  \/ SignUp
  \/ SignIn
  \/ RefreshToken
  \/ SendMagicLink
  \/ SendPasswordRecovery
  \/ VerifyOTP
  \/ GetUser
  \/ UpdateUser
  \/ SignOut
  \/ InviteUser
  \/ ResetPassword
  \/ SetToken
  \/ Proceed

Spec == Init /\ [][Next]_vars

(***************************************************************************)
(* formatQueryParams on its own: the filter maps over two keys whose       *)
(* values are the strings of at most MaxValLen characters of an alphabet   *)
(* with a letter, a digit, the space and reserved characters.              *)
(***************************************************************************)
MaxValLen == 2

FilterAlphabet == {"a", "2", " ", "+", "%", "&"}

FilterValues == UNION {[1..n -> FilterAlphabet] : n \in 0..MaxValLen}

FilterMaps == UNION {[S -> FilterValues] : S \in SUBSET {KeyId, KeyName}}

InitFmt ==
  /\ client = NewClient(<<"http://host">>, <<"k", "e", "y">>, <<>>)
  /\ pc = "idle"
  /\ last = NoCall
  /\ prevAuth = <<>>
  /\ fmt \in {[in |-> m, out |-> <<>>, done |-> FALSE] : m \in FilterMaps}

\* formatted := formatQueryParams(params); params is read, never written
FormatParams ==
  /\ ~fmt.done
  /\ fmt' = [in |-> fmt.in, out |-> formatQueryParams(fmt.in), done |-> TRUE]
  /\ UNCHANGED <<client, pc, last, prevAuth>>

NextFmt == FormatParams

SpecFmt == InitFmt /\ [][NextFmt]_vars

(***************************************************************************)
(* What the properties below talk about.                                   *)
(***************************************************************************)
\* a call of one of ops has returned
ReturnedFrom(ops) == pc = "returned" /\ last.op \in ops

\* ... and a response to its request had arrived
AnsweredTo(ops) == ReturnedFrom(ops) /\ last.out.answered

\* ... and its request had gone out
SentBy(ops) == ReturnedFrom(ops) /\ last.out.sent

AllOps == DataOps \cup GenericAuthOps \cup TokenOps

\* a token as a bearer credential: prefixed unless it already is
BearerCredential(t) == IF HasPrefix(t, BearerPrefix) THEN t ELSE BearerPrefix \o t

\* the message of err (its text, then its detail) contains the bytes b
MessageContains(err, b) == ~err.nil /\ Contains(err.detail, b)

\* C1: a data-surface call answered with a status outside [200,300) returns a
\* non-nil error that errors.Is matches with ErrRequestFailed, whatever the status.
C1_NonSuccessIsRequestFailed ==
  (AnsweredTo(DataOps) /\ ~(last.resp.status >= 200 /\ last.resp.status < 300))
    => errorsIs(last.out.res.err, ErrRequestFailed)

\* C2: a data-surface call answered with a non-2xx status and body B returns an
\* error whose message contains B, and never a nil error together with bytes.
C2_NonSuccessCarriesBodyInError ==
  (AnsweredTo(DataOps) /\ ~(last.resp.status >= 200 /\ last.resp.status < 300))
    => /\ MessageContains(last.out.res.err, last.resp.body)
       /\ ~(last.out.res.err.nil /\ ~last.out.res.nilBytes)

\* C3: a data-surface or generic-auth call answered with a status in [200,300),
\* whose body was read to its end, returns a nil error and exactly the bytes of
\* the response body, unparsed; 201 is such a status.
C3_SuccessReturnsBodyBytes ==
  (AnsweredTo(DataOps \cup GenericAuthOps)
     /\ last.resp.status >= 200 /\ last.resp.status < 300 /\ ~last.resp.readErr)
    => /\ last.out.res.err.nil
       /\ ~last.out.res.nilBytes
       /\ last.out.res.bytes = last.resp.body
       /\ Len(last.out.res.bytes) = Len(last.resp.body)

C3_Witness ==
  /\ AnsweredTo({"SignUp"})
  /\ last.resp.status = 201
  /\ last.resp.body = Bad
  /\ ~last.resp.readErr
  /\ last.out.res.err.nil
  /\ last.out.res.bytes = Bad

\* C4: SignIn and RefreshToken answered with a status outside [200,300) return a
\* nil result and a non-nil error that errors.Is matches with ErrRequestFailed
\* and that differs from the error of a 2xx body that fails to decode.
C4_TokenFlowNonSuccessIsRequestFailed ==
  (AnsweredTo(TokenOps) /\ ~(last.resp.status >= 200 /\ last.resp.status < 300))
    => /\ last.out.res.nilAuth
       /\ ~last.out.res.err.nil
       /\ errorsIs(last.out.res.err, ErrRequestFailed)
       /\ last.out.res.err
            # authRequestResult([last.resp EXCEPT !.status = 200, !.body = Bad, !.readErr = FALSE]).err

\* C5: SignIn and RefreshToken answered with a 2xx status and a body that does
\* not decode into AuthTokenResponse return a nil result and an error that
\* errors.Is matches with ErrInvalidResponse and not with ErrRequestFailed.
C5_DecodeFailureIsInvalidResponse ==
  (AnsweredTo(TokenOps) /\ last.resp.status >= 200 /\ last.resp.status < 300
     /\ ~Decode(ReadAll(last.resp)).ok)
    => /\ last.out.res.nilAuth
       /\ errorsIs(last.out.res.err, ErrInvalidResponse)
       /\ ~errorsIs(last.out.res.err, ErrRequestFailed)

\* C6: the Authorization header doRequest emits for a non-empty Token t is
\* "Bearer " + t when t does not start with the prefix and t itself when it
\* does; normalizing the emitted header again changes nothing, and the header
\* starts with two prefixes only if the caller's Token already did.
C6_AuthorizationNormalization ==
  (SentBy(DataOps \cup GenericAuthOps) /\ client.Token # <<>>)
    => LET h == last.out.req.headers["Authorization"]
       IN  /\ ~HasPrefix(client.Token, BearerPrefix) => h = BearerPrefix \o client.Token
           /\ HasPrefix(client.Token, BearerPrefix) => h = client.Token
           /\ AuthorizationValue(h) = h
           /\ HasPrefix(h, BearerPrefix)
           /\ HasPrefix(h, BearerPrefix \o BearerPrefix)
                => HasPrefix(client.Token, BearerPrefix \o BearerPrefix)

C6_Witness ==
  /\ SentBy({"Get"})
  /\ client.Token = BearerPrefix \o <<"t">>
  /\ last.out.req.headers["Authorization"] = BearerPrefix \o <<"t">>

\* C7 as stated: every request of every operation, SignIn and RefreshToken
\* included, carries apikey, Content-Type: application/json and, when the
\* Token is non-empty, an Authorization header with the token as bearer credential.
C7_EveryRequestCarriesAllHeaders ==
  SentBy(AllOps)
    => /\ "apikey" \in DOMAIN last.out.req.headers
       /\ last.out.req.headers["apikey"] = client.ApiKey
       /\ "Content-Type" \in DOMAIN last.out.req.headers
       /\ last.out.req.headers["Content-Type"] = ContentTypeJson
       /\ client.Token # <<>>
            => /\ "Authorization" \in DOMAIN last.out.req.headers
               /\ last.out.req.headers["Authorization"] = BearerCredential(client.Token)

\* C7 amended: every request of every operation carries apikey and Content-Type:
\* application/json; the requests of the data-surface and generic-auth
\* operations carry, when the Token is non-empty, the Authorization header with
\* the token as bearer credential; SignIn and RefreshToken send no Authorization header.
C7_HeadersByRequestStyle ==
  SentBy(AllOps)
    => /\ "apikey" \in DOMAIN last.out.req.headers
       /\ last.out.req.headers["apikey"] = client.ApiKey
       /\ "Content-Type" \in DOMAIN last.out.req.headers
       /\ last.out.req.headers["Content-Type"] = ContentTypeJson
       /\ (last.op \notin TokenOps /\ client.Token # <<>>)
            => /\ "Authorization" \in DOMAIN last.out.req.headers
               /\ last.out.req.headers["Authorization"] = BearerCredential(client.Token)
       /\ last.op \in TokenOps => "Authorization" \notin DOMAIN last.out.req.headers

C7_Witness ==
  /\ SentBy({"SignIn"})
  /\ client.Token = <<"t">>
  /\ last.out.req.headers["apikey"] = client.ApiKey
  /\ DOMAIN last.out.req.headers = {"apikey", "Content-Type"}

\* C8: a request of a data-surface or generic-auth operation carries an
\* Authorization header iff the client's Token is non-empty when the call is
\* made, and the header is the bearer credential of the Token of that moment:
\* a Token assigned between two calls decides the second request's header alone.
C8_HeaderFollowsCurrentToken ==
  [][(pc = "idle" /\ pc' = "returned" /\ last'.op \in DataOps \cup GenericAuthOps /\ last'.out.sent)
       => /\ ("Authorization" \in DOMAIN last'.out.req.headers) <=> (client.Token # <<>>)
          /\ client.Token # <<>>
               => last'.out.req.headers["Authorization"] = BearerCredential(client.Token)]_vars

C8_Witness ==
  /\ SentBy({"GetUser"})
  /\ prevAuth = ("Authorization" :> (BearerPrefix \o <<"t">>))
  /\ client.Token = BearerPrefix \o BearerPrefix \o <<"t">>
  /\ last.out.req.headers["Authorization"] = BearerPrefix \o BearerPrefix \o <<"t">>

\* C9: formatQueryParams keeps the keys of the filter map, maps every value v
\* to "eq." followed by the query-escaped v, unescaping that suffix gives v
\* back exactly, and the map passed in is left as it was.
C9_FormatRoundTrip ==
  [][FormatParams
       => /\ DOMAIN fmt'.out = DOMAIN fmt.in
          /\ \A k \in DOMAIN fmt.in :
               /\ HasPrefix(fmt'.out[k], EqPrefix)
               /\ TrimPrefix(fmt'.out[k], EqPrefix) = QueryEscape(fmt.in[k])
               /\ QueryUnescape(TrimPrefix(fmt'.out[k], EqPrefix)) = [ok |-> TRUE, val |-> fmt.in[k]]
          /\ fmt'.in = fmt.in]_vars

C9_Witness ==
  /\ fmt.done
  /\ fmt.in = (KeyName :> <<"a", " ">>) @@ (KeyId :> <<"%", "2">>)
  /\ fmt.out = (KeyName :> <<"e", "q", ".", "a", "+">>) @@ (KeyId :> <<"e", "q", ".", "%", "2", "5", "2">>)

\* the raw query a server should receive for the filter map m: per key, in key
\* order, key=eq.<value escaped once>
RECURSIVE onceEscaped(_, _)
onceEscaped(m, ks) ==
  IF ks = <<>> THEN <<>>
  ELSE Head(ks) \o <<"=">> \o EqPrefix \o QueryEscape(m[Head(ks)])
       \o (IF Len(ks) > 1 THEN <<"&">> ELSE <<>>) \o onceEscaped(m, Tail(ks))

\* C10: the raw query string of a Get with a filter map carries, for every key,
\* "eq." followed by the value escaped exactly once (name=eq.John+Doe or
\* name=eq.John%20Doe for the value "John Doe").
C10_FilterEscapedOnceOnWire ==
  (SentBy({"Get"}) /\ DOMAIN last.params # {})
    => urlParse(last.out.req.url).rawQuery = onceEscaped(last.params, SortedKeys(DOMAIN last.params))

(***************************************************************************)
(* The requests of the data surface.                                       *)
(***************************************************************************)
\* the client's base address is one a request can be built for
WellFormedBase == urlParse(client.BaseUrl).ok

\* the raw query string of the request the last call sent
RawQuery == urlParse(last.out.req.url).rawQuery

\* C11: a Put or Delete on a client with a well-formed base address sends one
\* request whose raw query string is exactly k=eq.<escaped v> for its primary
\* key k and value v (id=eq.10 for id and 10); the body of Put's request is its
\* data, byte for byte, and Delete's request has no body.
C11_PrimaryKeyIsSingleEqualityFilter ==
  (ReturnedFrom({"Put", "Delete"}) /\ WellFormedBase)
    => /\ last.out.sent
       /\ RawQuery = last.args.pk[1] \o <<"=">> \o EqPrefix \o QueryEscape(last.args.pk[2])
       /\ last.out.req.body = IF last.op = "Put" THEN [has |-> TRUE, bytes |-> last.args.data]
                              ELSE [has |-> FALSE, bytes |-> <<>>]

\* C12: a Post on a client with a well-formed base address sends exactly one
\* request, with method POST, whose body is the data it was given, byte for
\* byte, and whose URL has no query string.
C12_PostSendsDataUnchanged ==
  (ReturnedFrom({"Post"}) /\ WellFormedBase)
    => /\ last.out.sent
       /\ last.out.wire.requests = 1
       /\ last.out.req.method = "POST"
       /\ last.out.req.body.has
       /\ last.out.req.body.bytes = last.args.data
       /\ "?" \notin Range(last.out.req.url)

\* a Post whose data has insignificant space has sent its request
C12_Witness ==
  /\ SentBy({"Post"})
  /\ last.out.wire.requests = 1
  /\ " " \in Range(last.args.data)
  /\ last.out.req.body.bytes = last.args.data

\* the index of the first sep in s, or 0
FirstIndex(s, sep) ==
  IF sep \in Range(s) THEN CHOOSE i \in DOMAIN s : s[i] = sep /\ \A j \in 1..(i - 1) : s[j] # sep ELSE 0

\* the pieces of s between the occurrences of sep
RECURSIVE Split(_, _)
Split(s, sep) ==
  IF FirstIndex(s, sep) = 0 THEN <<s>>
  ELSE <<SubSeq(s, 1, FirstIndex(s, sep) - 1)>> \o Split(SubSeq(s, FirstIndex(s, sep) + 1, Len(s)), sep)

\* the key=value pairs of a raw query string, as they stand on the wire
RawPairs(q) ==
  IF q = <<>> THEN <<>>
  ELSE [i \in DOMAIN Split(q, "&") |->
          LET kv == Split(q, "&")[i]
          IN  IF FirstIndex(kv, "=") = 0 THEN <<kv, <<>>>>
              ELSE <<SubSeq(kv, 1, FirstIndex(kv, "=") - 1), SubSeq(kv, FirstIndex(kv, "=") + 1, Len(kv))>>]

\* C13: a Get or Patch with a filter map m on a client with a well-formed base
\* address sends a request whose query string has exactly one key=value pair
\* per key of m and no other pair, the value of key k being eq.<escaped m[k]>;
\* Get's request has no body and Patch's body is the data it was given.
C13_OnePairPerFilterKey ==
  (ReturnedFrom({"Get", "Patch"}) /\ WellFormedBase /\ DOMAIN last.params # {})
    => /\ last.out.sent
       /\ Len(RawPairs(RawQuery)) = Cardinality(DOMAIN last.params)
       /\ Range(RawPairs(RawQuery)) = {<<k, EqPrefix \o QueryEscape(last.params[k])>> : k \in DOMAIN last.params}
       /\ last.out.req.body = IF last.op = "Patch" THEN [has |-> TRUE, bytes |-> last.args.data]
                              ELSE [has |-> FALSE, bytes |-> <<>>]

\* v is written as a PostgREST operator expression: gt.<x> or eq.<x>
IsOperatorExpression(v) == HasPrefix(v, <<"g", "t", ".">>) \/ HasPrefix(v, EqPrefix)

\* C14: a Get whose filter values the caller has written as PostgREST operator
\* expressions sends each of them as that expression: age=gt.25 for the value
\* gt.25 of age, name=eq.John for the value eq.John of name.
C14_OperatorExpressionReachesBackend ==
  (SentBy({"Get"}) /\ DOMAIN last.params # {}
     /\ \A k \in DOMAIN last.params : IsOperatorExpression(last.params[k]))
    => Range(RawPairs(RawQuery)) = {<<k, last.params[k]>> : k \in DOMAIN last.params}

(***************************************************************************)
(* The requests of the auth surface.                                       *)
(***************************************************************************)
AuthSurfaceOps == GenericAuthOps \cup TokenOps

\* the backend path each auth-surface operation is documented to address
AuthPathOf ==
  [op \in AuthSurfaceOps |->
     authApiPath \o <<"/">> \o
       <<CASE op = "SignUp" -> "signup"
           [] op \in {"SignIn", "RefreshToken"} -> "token"
           [] op = "SendMagicLink" -> "magiclink"
           [] op = "SendPasswordRecovery" -> "recover"
           [] op = "VerifyOTP" -> "verify"
           [] op \in {"GetUser", "UpdateUser"} -> "user"
           [] op = "SignOut" -> "logout"
           [] op = "InviteUser" -> "invite"
           [] op = "ResetPassword" -> "reset">>]

\* the address of the request the last call sent, without its query string
RequestPath == urlParse(last.out.req.url).path

\* C15: the request of an auth-surface operation goes to the client's BaseUrl
\* followed directly by the operation's /auth/v1/<name> path; what follows
\* BaseUrl begins with /auth/v1/ and not with /rest/v1/.
C15_AuthRequestsGoToAuthPath ==
  SentBy(AuthSurfaceOps)
    => /\ RequestPath = client.BaseUrl \o AuthPathOf[last.op]
       /\ ~HasPrefix(RequestPath, client.BaseUrl \o restApiPath)

\* the values of the grant_type parameter in the query string of the request
\* the last call sent
GrantTypes == {p[2] : p \in {q \in Range(RawPairs(RawQuery)) : q[1] = <<"grant_type">>}}

\* what SignIn, RefreshToken and SignUp send: the token flows post to
\* BaseUrl + /auth/v1/token, each of the three with its own grant_type
TokenFlowRequests ==
  /\ SentBy(TokenOps) => /\ last.out.req.method = "POST"
                         /\ RequestPath = client.BaseUrl \o tokenApiPath
  /\ SentBy({"SignIn"}) => GrantTypes = {<<"password">>}
  /\ SentBy({"RefreshToken"}) => GrantTypes = {<<"refresh_token">>}
  /\ SentBy({"SignUp"}) => GrantTypes = {<<"signup">>}

\* C16 as stated: SignIn and RefreshToken post to BaseUrl + /auth/v1/token with
\* grant_type=password and grant_type=refresh_token, SignUp's request carries
\* grant_type=signup, and no request carries any other grant_type value.
C16_OnlyThreeGrantTypes ==
  /\ TokenFlowRequests
  /\ SentBy(AllOps) => GrantTypes \subseteq {<<"password">>, <<"refresh_token">>, <<"signup">>}

\* C16 amended: as above for SignIn, RefreshToken and SignUp; ResetPassword's
\* request carries grant_type=reset_password; no other operation sends a
\* grant_type parameter.
C16_GrantTypePerFlow ==
  /\ TokenFlowRequests
  /\ SentBy({"ResetPassword"}) => GrantTypes = {<<"reset_password">>}
  /\ SentBy(AllOps \ {"SignIn", "RefreshToken", "SignUp", "ResetPassword"}) => GrantTypes = {}

\* a SignIn has posted to the token endpoint with grant_type=password
C16_Witness ==
  /\ SentBy({"SignIn"})
  /\ RequestPath = client.BaseUrl \o tokenApiPath
  /\ <<"password">> \in GrantTypes

\* C17 as stated: the request of an auth-surface operation has method POST and
\* goes to the operation's own path, which is the path of no other operation.
C17_AuthOpsPostToDistinctPaths ==
  SentBy(AuthSurfaceOps)
    => /\ last.out.req.method = "POST"
       /\ RequestPath \in {client.BaseUrl \o AuthPathOf[last.op],
                           client.BaseUrl \o restApiPath \o AuthPathOf[last.op]}
       /\ \A other \in AuthSurfaceOps \ {last.op} : AuthPathOf[other] # AuthPathOf[last.op]

\* the method each auth-surface operation uses
AuthMethodOf ==
  [op \in AuthSurfaceOps |-> IF op = "GetUser" THEN "GET" ELSE IF op = "UpdateUser" THEN "PUT" ELSE "POST"]

\* the grant_type parameter each auth-surface operation sends, if any
AuthGrantOf ==
  [op \in AuthSurfaceOps |->
     CASE op = "SignIn" -> {<<"password">>}
       [] op = "RefreshToken" -> {<<"refresh_token">>}
       [] op = "SignUp" -> {<<"signup">>}
       [] op = "ResetPassword" -> {<<"reset_password">>}
       [] OTHER -> {}]

\* C17 amended: every auth-surface operation uses a fixed method and a fixed
\* path: POST except for GetUser (GET) and UpdateUser (PUT).  Only GetUser and
\* UpdateUser, and SignIn and RefreshToken, share a path, and any two
\* operations differ in method, path or grant_type parameter.
C17_AuthOpsHaveDistinctRoutes ==
  SentBy(AuthSurfaceOps)
    => /\ last.out.req.method = AuthMethodOf[last.op]
       /\ RequestPath \in {client.BaseUrl \o AuthPathOf[last.op],
                           client.BaseUrl \o restApiPath \o AuthPathOf[last.op]}
       /\ GrantTypes = AuthGrantOf[last.op]
       /\ \A other \in AuthSurfaceOps \ {last.op} :
            /\ AuthPathOf[other] = AuthPathOf[last.op]
                 => {other, last.op} \in {{"GetUser", "UpdateUser"}, {"SignIn", "RefreshToken"}}
            /\ <<AuthMethodOf[other], AuthPathOf[other], AuthGrantOf[other]>>
                 # <<last.out.req.method, AuthPathOf[last.op], GrantTypes>>

\* GetUser has sent its request, a GET to the user path
C17_Witness ==
  /\ SentBy({"GetUser"})
  /\ last.out.req.method = "GET"
  /\ RequestPath = client.BaseUrl \o restApiPath \o userApiPath

(***************************************************************************)
(* The token flows.                                                        *)
(***************************************************************************)
\* the members of a flat JSON object b whose values are strings: the key two
\* symbols before each colon, the value between the quotes after it
BodyMembers(b) ==
  {<<b[i - 2], IF b[i + 2] = Quote THEN <<>> ELSE <<b[i + 2]>>>> : i \in {j \in DOMAIN b : b[j] = ":"}}

\* the fields of the grant the last call asked for, with the values it gave
GrantFields ==
  IF last.op = "SignIn"
  THEN {<<"email", last.args.creds[1]>>, <<"password", last.args.creds[2]>>}
  ELSE {<<"refresh_token", last.args.creds[1]>>}

\* C18: the body of a token request is a JSON object with exactly the fields
\* of the requested grant that were given a value: email and password for
\* SignIn, refresh_token for RefreshToken; a field left empty, grant_type
\* included, is not in it.
C18_TokenBodyHasOnlyGrantFields ==
  SentBy(TokenOps)
    => LET b == last.out.req.body.bytes
       IN  /\ Head(b) = "{" /\ b[Len(b)] = "}"
           /\ BodyMembers(b) = {m \in GrantFields : m[2] # <<>>}
           /\ Cardinality({j \in DOMAIN b : b[j] = ":"}) = Cardinality(BodyMembers(b))

\* a SignIn with an empty email has sent a body that holds the password alone
C18_Witness ==
  /\ SentBy({"SignIn"})
  /\ last.args.creds[1] = <<>>
  /\ last.args.creds[2] # <<>>
  /\ BodyMembers(last.out.req.body.bytes) = {<<"password", last.args.creds[2]>>}

\* the member named key of the flat JSON object b: whether its value is a
\* string, and the text of the value
ResponseField(b, key) ==
  LET i == CHOOSE j \in DOMAIN b : b[j] = ":" /\ j > 2 /\ b[j - 2] = key
  IN  [quoted |-> b[i + 1] = Quote,
       text |-> IF b[i + 1] # Quote THEN <<b[i + 1]>> ELSE IF b[i + 2] = Quote THEN <<>> ELSE <<b[i + 2]>>]

ResponseKeys(b) == {b[j - 2] : j \in {i \in DOMAIN b : b[i] = ":" /\ i > 2}}

\* b is a JSON object carrying access_token, token_type and refresh_token as
\* strings and expires_in as a number
CarriesTokenFields(b) ==
  /\ b # <<>> /\ Head(b) = "{" /\ b[Len(b)] = "}"
  /\ {"access_token", "token_type", "expires_in", "refresh_token"} \subseteq ResponseKeys(b)
  /\ \A k \in {"access_token", "token_type", "refresh_token"} : ResponseField(b, k).quoted
  /\ ~ResponseField(b, "expires_in").quoted
  /\ ResponseField(b, "expires_in").text[1] \in DOMAIN NumVal

\* C19: a SignIn or RefreshToken answered with a 2xx status and a JSON body
\* carrying access_token, token_type, expires_in and refresh_token, all of
\* which arrives, returns a nil error and a structure whose AccessToken,
\* TokenType, ExpiresIn and RefreshToken are the values of those fields.
C19_TokenResponseDecoded ==
  (AnsweredTo(TokenOps) /\ last.resp.status >= 200 /\ last.resp.status < 300
     /\ CarriesTokenFields(last.resp.body)
     /\ (last.resp.readErr => last.resp.readN = Len(last.resp.body)))
    => /\ last.out.res.err.nil
       /\ ~last.out.res.nilAuth
       /\ last.out.res.auth.AccessToken = ResponseField(last.resp.body, "access_token").text
       /\ last.out.res.auth.TokenType = ResponseField(last.resp.body, "token_type").text
       /\ last.out.res.auth.ExpiresIn = NumVal[ResponseField(last.resp.body, "expires_in").text[1]]
       /\ last.out.res.auth.RefreshToken = ResponseField(last.resp.body, "refresh_token").text

\* a SignIn answered 200 with access_token "T" has returned AccessToken "T"
C19_Witness ==
  /\ AnsweredTo({"SignIn"})
  /\ last.resp.status = 200
  /\ CarriesTokenFields(last.resp.body)
  /\ ResponseField(last.resp.body, "access_token").text = <<"T">>
  /\ last.out.res.err.nil
  /\ last.out.res.auth.AccessToken = <<"T">>
  /\ last.out.res.auth.ExpiresIn = 3600

\* a resource name without the one leading slash it may have been given with
ResourceName(endpoint) == IF endpoint # <<>> /\ Head(endpoint) = "/" THEN Tail(endpoint) ELSE endpoint

\* C20: the request of a data-surface operation on resource r goes to
\* BaseUrl + "/rest/v1/" + r, and to that same address when r is given with
\* one leading slash: no second slash follows /rest/v1/.
C20_ResourceUrl ==
  SentBy(DataOps)
    => /\ RequestPath = client.BaseUrl \o restApiPath \o <<"/">> \o ResourceName(last.endpoint)
       /\ RequestPath[Len(client.BaseUrl \o restApiPath) + 2] # "/"

\* a data-surface call on "/Food" has sent its request to BaseUrl/rest/v1/Food
C20_Witness ==
  /\ SentBy(DataOps)
  /\ last.endpoint = <<"/", "Food">>
  /\ RequestPath = client.BaseUrl \o restApiPath \o <<"/", "Food">>

(***************************************************************************)
(* Failures, and what a call does on the connection.                       *)
(***************************************************************************)
\* C21: when client.Do returns no response, the operation returns a non-nil
\* error with neither result bytes nor a token structure, and it has called
\* client.Do once: the request is not issued a second time.
C21_NoResponseIsErrorWithoutRetry ==
  (SentBy(AllOps) /\ ~last.out.answered)
    => /\ ~last.out.res.err.nil
       /\ last.out.res.nilBytes /\ last.out.res.bytes = <<>>
       /\ last.out.res.nilAuth
       /\ last.out.wire.requests = 1

\* a Get whose request got no response has returned an error
C21_Witness ==
  /\ SentBy({"Get"})
  /\ ~last.out.answered
  /\ ~last.out.res.err.nil
  /\ last.out.wire.requests = 1

\* C22: a call on a client whose address cannot be parsed, so that building
\* the request fails, returns a non-nil error and has sent nothing.
C22_ConstructionFailureIsError ==
  (ReturnedFrom(AllOps) /\ ~WellFormedBase)
    => /\ ~last.out.sent
       /\ last.out.wire.requests = 0
       /\ ~last.out.res.err.nil

(***************************************************************************)
(* NewClient on its own: the caller holds three strings (fmt.in) and       *)
(* constructs a client from them.  The strings include the empty string,   *)
(* addresses url.Parse rejects and tokens with and without the prefix.     *)
(***************************************************************************)
NewBaseUrls == BaseUrls \cup {<<>>, <<"host">>, <<"http://host", "/">>}

NewApiKeys == ApiKeys \cup {<<>>, <<" ">>, <<"k">>, <<"B", "e", "a", "r", "e", "r", " ", "k">>}

NewTokens == Tokens \cup {BearerPrefix}

\* no client has been constructed yet
NoClient == [BaseUrl |-> <<>>, ApiKey |-> <<>>, Token |-> <<>>]

InitNew ==
  /\ client = NoClient
  /\ pc = "idle"
  /\ last = NoCall
  /\ prevAuth = <<>>
  /\ fmt \in {[in |-> <<b, k, t>>, out |-> <<>>, done |-> FALSE] :
                b \in NewBaseUrls, k \in NewApiKeys, t \in NewTokens}

\* client := NewClient(baseUrl, apiKey, token)
Construct ==
  /\ ~fmt.done
  /\ client' = NewClient(fmt.in[1], fmt.in[2], fmt.in[3])
  /\ fmt' = [fmt EXCEPT !.done = TRUE]
  /\ UNCHANGED <<pc, last, prevAuth>>

NextNew == Construct

SpecNew == InitNew /\ [][NextNew]_vars

\* C23: NewClient takes any three strings, the empty string and a malformed
\* address included, and returns a client whose BaseUrl, ApiKey and Token are
\* the three arguments exactly.
C23_NewClientKeepsArguments ==
  /\ ~fmt.done => ENABLED Construct
  /\ fmt.done => /\ client.BaseUrl = fmt.in[1]
                 /\ client.ApiKey = fmt.in[2]
                 /\ client.Token = fmt.in[3]

\* a client has been constructed from a malformed address, an empty key and a
\* raw token
C23_Witness ==
  /\ fmt.done
  /\ fmt.in = <<<<":", "host">>, <<>>, <<"t">>>>
  /\ client = [BaseUrl |-> <<":", "host">>, ApiKey |-> <<>>, Token |-> <<"t">>]

\* C24: a call whose response body fails to be read after part of it has been
\* read returns an error: it does not return a nil error, with or without the
\* bytes read so far.
C24_PartialReadIsError ==
  (AnsweredTo(AllOps) /\ last.resp.readErr
     /\ last.resp.readN > 0 /\ last.resp.readN < Len(last.resp.body))
    => ~last.out.res.err.nil

\* C25: every call returns once: the step that takes the caller from idle to
\* returned carries the call's outcome, for which client.Do was called at most
\* once (once exactly if a request went out), whatever the status or failure;
\* after it nothing happens on behalf of that call: the outcome stays as it is
\* until the caller goes on, and the caller starts the next call from idle.
C25_OneRequestOneReturn ==
  [][/\ pc' = "returned"
          => /\ pc = "idle"
             /\ last'.op \in AllOps
             /\ last'.out.wire.requests \in {0, 1}
             /\ last'.out.sent <=> last'.out.wire.requests = 1
             /\ last'.out.answered => last'.out.sent
     /\ pc = "returned" => (pc' = "idle" /\ last' = NoCall /\ client' = client)]_vars

\* a call answered with a failure status has returned after a single request
C25_Witness ==
  /\ AnsweredTo(AllOps)
  /\ last.resp.status = 400
  /\ last.out.wire.requests = 1

\* C26: when a call has obtained a response, the response body has been read
\* up to its end and closed by the time the call returns, whichever way
\* doRequest or authRequest was left: success, non-2xx status, decode failure
\* or read failure.
C26_BodyDrainedAndClosed ==
  AnsweredTo(AllOps) => (last.out.wire.drained /\ last.out.wire.closed)

\* C27: no call changes the client.  BaseUrl and ApiKey never change, and
\* Token changes only in a step of the caller between two calls; a step in
\* which an operation returns, SignIn and RefreshToken with a token structure
\* included, leaves all three fields as they were.
C27_CallsLeaveClientUnchanged ==
  [][/\ pc' = "returned" => client' = client
     /\ client'.BaseUrl = client.BaseUrl
     /\ client'.ApiKey = client.ApiKey
     /\ client'.Token # client.Token => (pc = "idle" /\ pc' = "idle" /\ last' = last)]_vars

\* SignIn has returned the access token "T" to a client whose Token is empty
C27_Witness ==
  /\ AnsweredTo({"SignIn"})
  /\ client.Token = <<>>
  /\ last.resp.status = 200
  /\ CarriesTokenFields(last.resp.body)
  /\ last.out.res.err.nil
  /\ last.out.res.auth.AccessToken = <<"T">>

\* what a data-surface Get of the resource Food on the same client returns
\* when it is answered as the last call was
AsDataRequest == doRequest(client, "GET", <<"Food">>, <<>>, [has |-> FALSE, bytes |-> <<>>], last.resp)

\* C28: the request of a generic-auth operation is the data-surface request
\* for the resource named by the operation's auth path: its URL is BaseUrl +
\* "/rest/v1/" + the path without its leading slash, its headers are those a
\* data-surface request of the same client carries, and its result is the one
\* a data-surface request gets from the same response.
C28_GenericAuthIsDataRequest ==
  SentBy(GenericAuthOps)
    => /\ Head(last.endpoint) = "/"
       /\ urlParse(last.endpoint).path = AuthPathOf[last.op]
       /\ last.out.req.url = client.BaseUrl \o restApiPath \o <<"/">> \o Tail(last.endpoint)
       /\ last.out.req.headers = AsDataRequest.req.headers
       /\ last.out.answered => last.out.res = AsDataRequest.res

\* SendMagicLink, answered 400, has returned what a data request would
C28_Witness ==
  /\ AnsweredTo({"SendMagicLink"})
  /\ last.resp.status = 400
  /\ last.out.req.url = client.BaseUrl \o restApiPath \o magicLinkApiPath
  /\ "Authorization" \in DOMAIN last.out.req.headers
  /\ last.out.res = AsDataRequest.res

\* the keys of the key=value pairs in the query string of the last request
QueryKeys == {p[1] : p \in Range(RawPairs(RawQuery))}

\* C29: a Get given no filter map, and a Get or Patch given an empty one, send
\* a request whose URL has no query string; a Get given several filter maps
\* sends the filters of the first and nothing of the others.
C29_NoFilterNoQueryFirstMapOnly ==
  SentBy({"Get", "Patch"})
    => /\ (last.args.filters = <<>> \/ DOMAIN last.args.filters[1] = {})
            => "?" \notin Range(last.out.req.url)
       /\ (last.args.filters # <<>> /\ DOMAIN last.args.filters[1] # {})
            => /\ QueryKeys = DOMAIN last.args.filters[1]
               /\ Len(RawPairs(RawQuery)) = Cardinality(DOMAIN last.args.filters[1])
               /\ last.params = last.args.filters[1]

\* a Get given two filter maps has sent the key of the first alone
C29_Witness ==
  /\ SentBy({"Get"})
  /\ Len(last.args.filters) = 2
  /\ DOMAIN last.args.filters[2] # DOMAIN last.args.filters[1]
  /\ QueryKeys = DOMAIN last.args.filters[1]

(***************************************************************************)
(* Two clients, each used by a caller of its own, with their calls         *)
(* interleaved: a call reads the fields of its receiver and puts its       *)
(* request on the wire (pc = "inflight"), the response arrives and the     *)
(* call returns (pc = "returned"), the caller goes on (pc = "idle").       *)
(* Here client, pc and last are indexed by the caller.  The package has    *)
(* no variable that a call writes, so the state has no shared part.        *)
(***************************************************************************)
Callers == {1, 2}

\* the two clients differ in every field
ClientsOf ==
  [i \in Callers |->
     IF i = 1
     THEN {NewClient(<<"http://host1">>, <<"k", "1">>, t) : t \in {<<>>, <<"t", "1">>}}
     ELSE {NewClient(<<"http://host2">>, <<"k", "2">>, t) : t \in {<<>>, BearerPrefix \o <<"t", "2">>}}]

\* the calls of the two callers: Get through doRequest, SignIn through authRequest
ConcurrentOps == {"Get", "SignIn"}

\* what answers a call of op
ConcurrentNets(op) ==
  {n \in (IF op = "Get" THEN Nets({Bad}) ELSE Nets({GoodTokenBody})) : n.status \in {0, 200, 400} /\ ~n.readErr}

\* a variant in which every call works on one client kept at package level
Receiver_Shared(i) == client[1]

\* the receiver c of a call made by caller i
Receiver(i) == client[i]

\* the call of op by caller i with filter map params, answered by net
CallOutcome(i, op, params, net) ==
  IF op = "Get"
  THEN doRequest(Receiver(i), "GET", <<"Food">>, params, NoBody, net)
  ELSE authRequest(Receiver(i), tokenApiPath \o <<"?", "grant_type", "=", "password">>,
                   [Email |-> <<"a@b.c">>, Password |-> <<"pass">>, RefreshToken |-> <<>>, GrantType |-> <<>>],
                   net)

InitTwo ==
  /\ client \in [Callers -> UNION {ClientsOf[i] : i \in Callers}]
  /\ \A i \in Callers : client[i] \in ClientsOf[i]
  /\ pc = [i \in Callers |-> "idle"]
  /\ last = [i \in Callers |-> NoCall]
  /\ prevAuth = <<>>
  /\ fmt = NoFmt

\* caller i starts a call: the request is built from the receiver's fields
\* and handed to client.Do
Start(i) ==
  /\ pc[i] = "idle"
  /\ \E op \in ConcurrentOps, params \in {<<>>, (KeyId :> <<"1", "0">>)} :
       /\ op = "SignIn" => params = <<>>
       /\ last' = [last EXCEPT ![i] =
                     [op |-> op, args |-> NoArgs, endpoint |-> <<"Food">>, params |-> params, resp |-> NoNet,
                      out |-> [CallOutcome(i, op, params, NoNet) EXCEPT !.res = NoResult]]]
  /\ pc' = [pc EXCEPT ![i] = "inflight"]
  /\ UNCHANGED <<client, prevAuth, fmt>>

\* client.Do of caller i's call comes back, with a response or without, and
\* the call returns
Finish(i) ==
  /\ pc[i] = "inflight"
  /\ \E net \in ConcurrentNets(last[i].op) :
       LET out == CallOutcome(i, last[i].op, last[i].params, net)
       IN  last' = [last EXCEPT ![i].resp = IF out.answered THEN net ELSE NoNet, ![i].out = out]
  /\ pc' = [pc EXCEPT ![i] = "returned"]
  /\ UNCHANGED <<client, prevAuth, fmt>>

\* caller i is done with what its call returned
GoOn(i) ==
  /\ pc[i] = "returned"
  /\ pc' = [pc EXCEPT ![i] = "idle"]
  /\ last' = [last EXCEPT ![i] = NoCall]
  /\ UNCHANGED <<client, prevAuth, fmt>>

\* caller i assigns the Token of its client between two of its calls
Assign(i) ==
  /\ pc[i] = "idle"
  /\ \E c \in ClientsOf[i] \ {client[i]} : client' = [client EXCEPT ![i] = c]
  /\ UNCHANGED <<pc, last, prevAuth, fmt>>

StartCall == \E i \in Callers : Start(i)

FinishCall == \E i \in Callers : Finish(i)

CallerGoesOn == \E i \in Callers : GoOn(i)

AssignToken == \E i \in Callers : Assign(i)

NextTwo ==
  \/ StartCall
  \/ FinishCall
  \/ CallerGoesOn
  \/ AssignToken

SpecTwo == InitTwo /\ [][NextTwo]_vars

\* the request of caller i's call comes from the fields of i's client alone
OwnRequest(i) ==
  LET req == last[i].out.req
  IN  /\ HasPrefix(req.url, client[i].BaseUrl)
      /\ req.headers["apikey"] = client[i].ApiKey
      /\ last[i].op = "Get"
           => IF client[i].Token = <<>> THEN "Authorization" \notin DOMAIN req.headers
              ELSE /\ "Authorization" \in DOMAIN req.headers
                   /\ req.headers["Authorization"] = BearerCredential(client[i].Token)

\* the result of caller i's call comes from the response to i's request alone
OwnResult(i) ==
  LET out == last[i].out
  IN  /\ ~out.answered => ~out.res.err.nil
      /\ (out.answered /\ last[i].op = "Get")
           => out.res.bytes = (IF Is2xx(last[i].resp.status) THEN last[i].resp.body ELSE <<>>)
      /\ (out.answered /\ last[i].op = "SignIn")
           => (out.res.err.nil <=> Is2xx(last[i].resp.status))

\* C30: with calls on two clients interleaved in every way, each request's URL,
\* apikey header and Authorization header come from the fields of the client
\* the call was made on, each result comes from the call's own response, and a
\* step of one caller leaves the other's client and call as they are.
C30_DistinctClientsDoNotInterfere ==
  [][/\ \A i \in Callers :
          /\ (pc'[i] \in {"inflight", "returned"} /\ last'[i].out.sent) => OwnRequest(i)'
          /\ pc'[i] = "returned" => OwnResult(i)'
     /\ \A i \in Callers :
          (pc'[i] # pc[i] \/ last'[i] # last[i] \/ client'[i] # client[i])
            => \A j \in Callers \ {i} : pc'[j] = pc[j] /\ last'[j] = last[j] /\ client'[j] = client[j]]_vars

\* both callers have a call that returned while the other's was in flight or
\* returned: one answered 200 and one answered 400, with different
\* Authorization headers
C30_Witness ==
  /\ pc[1] = "returned" /\ pc[2] = "returned"
  /\ last[1].op = "Get" /\ last[2].op = "Get"
  /\ last[1].out.answered /\ last[1].resp.status = 200
  /\ last[2].out.answered /\ last[2].resp.status = 400
  /\ client[1].Token = <<"t", "1">>
  /\ client[2].Token = BearerPrefix \o <<"t", "2">>
  /\ last[1].out.req.headers["Authorization"] = BearerPrefix \o <<"t", "1">>
  /\ last[2].out.req.headers["Authorization"] = BearerPrefix \o <<"t", "2">>

====
